---- MODULE Spec2Model ----
(***************************************************************************)
(* Off-chain balance ledger and marketplace settlement of CARBONIQ.        *)
(*                                                                         *)
(* The request handlers are async functions on one event loop: a handler   *)
(* runs without interruption until it awaits network I/O (a Pinata search, *)
(* an IPFS gateway read, a Pinata upload) and other handlers run while it  *)
(* waits.  Every await of network I/O is one label in AwaitLabels; the     *)
(* awaits of promises that need no I/O (an async function that returns at  *)
(* once, the dynamic import of an already loaded module) do not release    *)
(* the loop.  One action is one turn of the event loop: a request arrives  *)
(* or a network call completes, and the handler runs to its next await of  *)
(* network I/O or to its answer (Run).                                     *)
(*                                                                         *)
(* Three specifications: Spec is the marketplace of the express server     *)
(* with the admin's approvals, SpecLedger the balance ledger alone (the     *)
(* store handler, the library functions, the GET handlers of both           *)
(* deployments), SpecClock the ledger's reads and approvals while the clock *)
(* advances.  SpecListing is createListing with absent and negative        *)
(* numbers, SpecRouter the dispatch of the Cloudflare Pages function,      *)
(* SpecRetry the retry helper (with the operation settling and the timer   *)
(* firing under weak fairness), SpecTickets the admin sessions and the     *)
(* tickets of the express server; the ticket handlers run on a loaded      *)
(* ticketsCache, so none of their awaits releases the loop before the      *)
(* cache is changed.  SpecDear is the marketplace with a listing dearer   *)
(* than half the default rupees.  On the browser's side: SpecRate is the   *)
(* rate limiter of the API client while its clock advances, SpecClient one *)
(* Api.buyListing call at a time against the express server, SpecWallet    *)
(* the useWallet hook with a wallet that may accept or refuse, and         *)
(* SpecReconnect the hook with a wallet that refuses every connection      *)
(* (provider requests settling and timers firing under weak fairness).     *)
(*                                                                         *)
(* Amounts are integers.  Pinata's pinList search is taken to list the     *)
(* newest pin first.  Not modelled: the random transaction / listing /     *)
(* order ids (listing ids are a counter), the content of the               *)
(* marketplace_listings.json and marketplace_orders.json pins and their    *)
(* CIDs (never read back), userIdToEmail, a browser without MetaMask, the  *)
(* forceSelect option of connect, the unmounting of the hook.              *)
(***************************************************************************)
EXTENDS Integers, Sequences, FiniteSets, TLC

(* ---------------------------- bounds ----------------------------------- *)
MaxRequests == 3
MaxFaults == 1
MaxClock == 1

(* ------------------------- program constants --------------------------- *)
DefaultRupees == 100

(* ---------------------------- input sets ------------------------------- *)
Procs == {"p1", "p2"}
Keys == {"a", "b"}
Undef == "undefined"
AdminAmounts == {0, 50}
IdInputs == {<<"u1", "w1">>}
ListingAmounts == {20}
ListingPrices == {20}
DeltaInputs == {<<20, 0 - 20>>, <<0 - 20, 20>>}

Null == [null |-> TRUE]

VARIABLES
    pinataConfigured,  \* getPinataAuthHeaders() returns headers
    deployment,        \* "express" (server/routes) or "edge" (api/*)
    now,               \* the clock read by Date.now() / new Date()
    pinned,            \* Pinata: sequence of [name, content]; the CID is the index
    emailToIpfsMap,    \* emailKey -> CID, 0 when absent
    inMemoryBalances,  \* emailKey -> snapshot, Null when absent
    listings,          \* newest first (unshift)
    orders,            \* newest first (unshift)
    procs,             \* the request handlers in flight
    response,          \* the frame of the handler that answered in this turn
    started,           \* number of requests started
    faults,            \* number of network calls that have failed so far
    lastRet,           \* emailKey -> snapshot returned by the latest applyDelta
    expected,          \* emailKey -> [n, tokens, rupees]: the number of applyDelta
                       \* calls that returned, and the initial balances plus
                       \* the deltas they applied
    lastGet,           \* emailKey -> [op, res, ver] of the latest getSnapshot
    tally,             \* listing id -> [ok, credits, debits] of its buys
    route,             \* onRequest: the request and the handler it was given to
    retry,             \* withRetry: the call in progress or the latest one
    tickets,           \* ticketsCache, newest first (unshift)
    adminSessions,     \* token -> expiresAt (ms), 0 when absent
    verdict,           \* the answer of the latest admin or ticket request
    rateLimitMap,      \* endpoint -> [count, resetTime], Null when absent
    windows,           \* endpoint -> the window of its calls, as the claims
                       \* count it: [start, granted, refused]
    hook,              \* useWallet: state, refs and localStorage
    pending            \* useWallet: the async calls in flight and the timers

vars == <<pinataConfigured, deployment, now, pinned, emailToIpfsMap,
          inMemoryBalances, listings, orders, procs, response, started,
          faults, lastRet, expected, lastGet, tally,
          route, retry, tickets, adminSessions, verdict,
          rateLimitMap, windows, hook, pending>>

\* the browser: the rate limiter of the API client and the wallet hook
client == <<rateLimitMap, windows, hook, pending>>

\* the router, the retry helper, the ticket desk and the browser
desk == <<route, retry, tickets, adminSessions, verdict, client>>

\* the ledger and the marketplace, but for the clock and the request count
market == <<pinataConfigured, deployment, pinned, emailToIpfsMap,
            inMemoryBalances, listings, orders, procs, response,
            faults, lastRet, expected, lastGet, tally>>

stores == <<pinned, emailToIpfsMap, inMemoryBalances, listings, orders>>

(* ------------------------------ helpers -------------------------------- *)
\* String.prototype.toLowerCase on the e-mail inputs
Lower(e) == IF e = "A" THEN "a" ELSE IF e = "B" THEN "b" ELSE e

RECURSIVE SumAmounts(_)
SumAmounts(txs) ==
    IF txs = <<>> THEN 0 ELSE Head(txs).amount + SumAmounts(Tail(txs))

\* rows[0] of the pinList search for `${emailKey}_balance.json`
\* (Pinata lists the newest pin first); 0 when there is no row
RECURSIVE LatestPinBelow(_, _, _)
LatestPinBelow(pins, k, n) ==
    IF n = 0 THEN 0
    ELSE IF pins[n].name = k THEN n ELSE LatestPinBelow(pins, k, n - 1)
LatestPin(pins, k) == LatestPinBelow(pins, k, Len(pins))

\* the default snapshot of getUserBalanceByEmailInternal
DefaultBalance(k) ==
    [userEmail |-> k, userId |-> Undef, walletAddress |-> Undef,
     totalBalance |-> 0, rupeesBalance |-> DefaultRupees,
     transactions |-> <<>>, lastUpdated |-> now]

\* the default object of the express GET handler: no rupeesBalance field
DefaultBalanceExpress(k) ==
    [userEmail |-> k, totalBalance |-> 0, transactions |-> <<>>,
     lastUpdated |-> now]

\* the default object of the edge GET handler
DefaultBalanceEdge(k, hash) ==
    [userEmail |-> k, totalBalance |-> 0, rupeesBalance |-> DefaultRupees,
     transactions |-> <<>>, lastUpdated |-> now,
     note |-> IF hash # 0 THEN "IPFS data temporarily unavailable"
              ELSE "No balance data found"]

\* `if (typeof bal.rupeesBalance !== 'number') bal.rupeesBalance = 100` and
\* `existingBalance.rupeesBalance ?? 100`
WithRupees(bal) ==
    IF "rupeesBalance" \in DOMAIN bal THEN bal
    ELSE [f \in DOMAIN bal \cup {"rupeesBalance"} |->
            IF f = "rupeesBalance" THEN DefaultRupees ELSE bal[f]]

\* a ?? b on the optional string fields
Coalesce(a, b) == IF a = Undef THEN b ELSE a

NewTransaction(k, amount, sig, ticket, wallet) ==
    [amount |-> amount, adminSignature |-> sig, ticketId |-> ticket,
     walletAddress |-> wallet, userEmail |-> k, timestamp |-> now]

\* updatedBalance of storeUserBalance
UpdatedBalance(existing, k, userId, wallet, amount, tx) ==
    IF existing # Null
    THEN [WithRupees(existing) EXCEPT
                          !.totalBalance = existing.totalBalance + amount,
                          !.transactions = Append(existing.transactions, tx),
                          !.lastUpdated = now]
    ELSE [userEmail |-> k, userId |-> userId, walletAddress |-> wallet,
          totalBalance |-> amount, rupeesBalance |-> DefaultRupees,
          transactions |-> <<tx>>, lastUpdated |-> now]

\* newBal of storeUserBalanceInternal
NewBalTotalStale(existing, amount) == existing.totalBalance
NewBalTotal(existing, amount) == existing.totalBalance + amount
NewBal(res, k, userId, wallet, amount, deltaRupees, tx) ==
    LET existing == IF res = Null
                    THEN [DefaultBalance(k) EXCEPT !.userId = userId,
                                                   !.walletAddress = wallet]
                    ELSE res
    IN  [existing EXCEPT
            !.userId = Coalesce(existing.userId, userId),
            !.walletAddress = Coalesce(existing.walletAddress, wallet),
            !.totalBalance = NewBalTotal(existing, amount),
            !.rupeesBalance = WithRupees(existing).rupeesBalance + deltaRupees,
            !.transactions = Append(existing.transactions, tx),
            !.lastUpdated = now]

\* What getUserBalanceByEmailInternal returns in this state when its network
\* calls succeed: the latest addressable snapshot of the account.
Addressable(k) ==
    IF inMemoryBalances[k] # Null THEN inMemoryBalances[k]
    ELSE IF emailToIpfsMap[k] # 0 THEN pinned[emailToIpfsMap[k]].content
    ELSE IF pinataConfigured /\ LatestPin(pinned, k) # 0
         THEN pinned[LatestPin(pinned, k)].content
    ELSE DefaultBalance(k)

NeverWritten(k) ==
    /\ inMemoryBalances[k] = Null
    /\ emailToIpfsMap[k] = 0
    /\ LatestPin(pinned, k) = 0

(* --------------------------- handler frames ---------------------------- *)
AwaitLabels ==
    {"iget_search", "iget_fetch", "subi_upload", "store_fetch",
     "store_upload", "hget_search", "hget_fetch", "eget_search",
     "eget_fetch", "create_save", "buy_save_listings", "buy_save_orders"}

\* the frame of a handler: its position, the frames it returns to, its
\* arguments and locals, its answer, and what the claims observe of it
IdleProc ==
    [op |-> "idle", pc |-> "idle", ret |-> <<>>,
     email |-> "", target |-> "", key |-> "", hash |-> 0, res |-> Null,
     userId |-> Undef, wallet |-> Undef, amount |-> 0, deltaRupees |-> 0,
     sig |-> <<>>, newBal |-> Null, newTokens |-> 0, newRupees |-> 0,
     lid |-> 0, price |-> 0, buyerBalance |-> Null,
     status |-> 0, error |-> "", body |-> Null,
     alone |-> TRUE, fault |-> FALSE, before |-> Null, seen |-> Null,
     ver |-> 0]

Active(q) == procs[q].pc # "idle"

\* the program state seen by handler p
Cur(p) ==
    [r |-> procs[p], pinned |-> pinned, emailToIpfsMap |-> emailToIpfsMap,
     inMemoryBalances |-> inMemoryBalances, listings |-> listings,
     orders |-> orders, faults |-> faults, lastRet |-> lastRet,
     expected |-> expected, lastGet |-> lastGet, tally |-> tally]

Respond(r, status, error, body) ==
    [r EXCEPT !.pc = "done", !.ret = <<>>, !.status = status,
              !.error = error, !.body = body,
              !.key = "", !.hash = 0, !.res = Null, !.newBal = Null,
              !.target = ""]

\* return v to the caller on top of the frame stack
Return(r, v) ==
    [r EXCEPT !.pc = Head(r.ret), !.ret = Tail(r.ret), !.res = v,
              !.key = "", !.hash = 0]

Call(r, label, retLabel) ==
    [r EXCEPT !.pc = label, !.ret = <<retLabel>> \o r.ret]

\* an exception leaves the frames of the handler: the express handlers catch it
\* and answer 500; a direct caller of the library function sees it thrown
Throw(r) ==
    IF r.op = "apply" THEN Respond(r, 0, "thrown", Null)
    ELSE Respond(r, 500, "fetch failed", Null)

\* a network call of handler st.r failed
Failed(st) == [st EXCEPT !.r.fault = TRUE, !.faults = @ + 1]

\* the outcomes of a network call: a search or a gateway read answers or fails;
\* an upload answers ok, answers an HTTP error, or fetch throws
ReadOutcomes == IF faults < MaxFaults THEN BOOLEAN ELSE {TRUE}
UploadOutcomes == IF faults < MaxFaults THEN {"ok", "fail", "throw"} ELSE {"ok"}
\* pinJSON answers a CID or null (an HTTP error: listingsCid / ordersCid stay
\* as they were, and they are not part of the state), or fetch throws
PinJsonOutcomes == IF faults < MaxFaults THEN {"ok", "throw"} ELSE {"ok"}

\* pinJSONToIPFS of snapshot s under the name of account k: the new CID is
\* recorded in emailToIpfsMap
Pin(st, k, s) ==
    [st EXCEPT !.pinned = Append(@, [name |-> k, content |-> s]),
               !.emailToIpfsMap[k] = Len(st.pinned) + 1]

\* inMemoryBalances.set(emailKey, s)
Remember(st, k, s) == [st EXCEPT !.inMemoryBalances[k] = s]

\* bookkeeping of an applyDelta call that returns snapshot s for account k
Applied(st, k, s, dTokens, dRupees) ==
    [st EXCEPT !.lastRet[k] = s,
               !.expected[k] = [n |-> @.n + 1, tokens |-> @.tokens + dTokens,
                                rupees |-> @.rupees + dRupees]]

\* res.status(200).json(body) of a getSnapshot call, with its bookkeeping
Answer(st, body) ==
    LET k == Lower(st.r.email)
    IN  [st EXCEPT !.r = [Respond(st.r, 200, "", body)
                          EXCEPT !.ver = st.expected[k].n],
                   !.lastGet[k] = [op |-> st.r.op, res |-> body,
                                   ver |-> st.expected[k].n]]

\* the previous answer of the same getSnapshot call on account k, if no
\* applyDelta has written since
Seen(op, k) ==
    IF lastGet[k] # Null /\ lastGet[k].op = op /\ lastGet[k].ver = expected[k].n
    THEN lastGet[k] ELSE Null

(* ------------- getUserBalanceByEmailInternal (balance.ts) --------------- *)
getUserBalanceByEmailInternal_start(st) ==
    LET r == st.r
        k == r.key
    IN  [st EXCEPT !.r =
            IF st.inMemoryBalances[k] # Null
            THEN Return(r, st.inMemoryBalances[k])
            ELSE IF st.emailToIpfsMap[k] # 0
            THEN [r EXCEPT !.pc = "iget_fetch", !.hash = st.emailToIpfsMap[k]]
            ELSE IF pinataConfigured
            THEN [r EXCEPT !.pc = "iget_search"]
            ELSE Return(r, DefaultBalance(k))]

getUserBalanceByEmailInternal_searched(st, ok) ==
    LET r == st.r
        k == r.key
        hash == IF ok THEN LatestPin(st.pinned, k) ELSE 0
    IN  IF hash # 0
        THEN [st EXCEPT !.emailToIpfsMap[k] = hash,
                        !.r = [r EXCEPT !.pc = "iget_fetch", !.hash = hash]]
        ELSE LET s == IF ok THEN st ELSE Failed(st)
             IN  [s EXCEPT !.r = Return(s.r, DefaultBalance(k))]

getUserBalanceByEmailInternal_fetched(st, ok) ==
    IF ok THEN [st EXCEPT !.r = Return(st.r, WithRupees(st.pinned[st.r.hash].content))]
    ELSE LET s == Failed(st) IN [s EXCEPT !.r = Return(s.r, Null)]

\* the caller of a direct getUserBalanceByEmailInternal call gets its result
getUserBalanceByEmailInternal_caller(st) == Answer(st, st.r.res)

(* ---------------- storeUserBalanceInternal (balance.ts) ----------------- *)
storeUserBalanceInternal_start(st) ==
    [st EXCEPT !.r = Call([st.r EXCEPT !.key = Lower(st.r.target)],
                          "iget", "subi_got")]

storeUserBalanceInternal_loaded(st) ==
    LET r == st.r
        k == Lower(r.target)
        tx == NewTransaction(k, r.amount, r.sig, <<"market", now>>, r.wallet)
        newBal == NewBal(r.res, k, r.userId, r.wallet, r.amount, r.deltaRupees, tx)
    IN  IF pinataConfigured
        THEN [st EXCEPT !.r = [r EXCEPT !.pc = "subi_upload", !.newBal = newBal,
                                        !.res = Null]]
        ELSE [Applied(Remember(st, k, newBal), k, newBal, r.amount, r.deltaRupees)
              EXCEPT !.r = Return(r, newBal)]

storeUserBalanceInternal_uploaded(st, out) ==
    LET r == st.r
        k == Lower(r.target)
        back(s) == [s EXCEPT !.r = [Return(s.r, r.newBal) EXCEPT !.newBal = Null]]
    IN  CASE out = "ok" ->
                back(Applied(Pin(st, k, r.newBal), k, r.newBal,
                             r.amount, r.deltaRupees))
          [] out = "fail" ->
                back(Applied(Remember(Failed(st), k, r.newBal), k, r.newBal,
                             r.amount, r.deltaRupees))
          [] out = "throw" ->
                LET s == Failed(st) IN [s EXCEPT !.r = Throw(s.r)]

\* the caller of a direct storeUserBalanceInternal call gets its result
storeUserBalanceInternal_caller(st) ==
    [st EXCEPT !.r = Respond(st.r, 200, "", st.r.res)]

(* ---------------- storeUserBalance (balance.ts, POST) ------------------- *)
\* the body of the 200 answer; cid is 0 for the empty string
StoreAnswer(r, cid, updated) ==
    Respond(r, 200, "", [success |-> TRUE, cid |-> cid,
                         balance |-> updated.totalBalance])

\* the handler from `existingBalance` on
storeUserBalance_update(st, existing) ==
    LET r == st.r
        k == Lower(r.email)
        tx == NewTransaction(k, r.amount, r.sig, <<"ticket", 0>>, r.wallet)
        updated == UpdatedBalance(existing, k, r.userId, r.wallet, r.amount, tx)
    IN  IF pinataConfigured
        THEN [st EXCEPT !.r = [r EXCEPT !.pc = "store_upload", !.newBal = updated,
                                        !.hash = 0]]
        ELSE [Applied(Remember(st, k, updated), k, updated, r.amount, 0)
              EXCEPT !.r = StoreAnswer(r, 0, updated)]

storeUserBalance_start(st) ==
    LET r == st.r
        k == Lower(r.email)
    IN  IF r.amount = 0
        THEN [st EXCEPT !.r = Respond(r, 400, "Missing required fields", Null)]
        ELSE IF st.emailToIpfsMap[k] # 0
        THEN [st EXCEPT !.r = [r EXCEPT !.pc = "store_fetch",
                                        !.hash = st.emailToIpfsMap[k]]]
        ELSE storeUserBalance_update(st, st.inMemoryBalances[k])

storeUserBalance_fetched(st, ok) ==
    IF ok THEN storeUserBalance_update(st, st.pinned[st.r.hash].content)
    ELSE storeUserBalance_update(Failed(st), Null)

storeUserBalance_uploaded(st, out) ==
    LET r == st.r
        k == Lower(r.email)
        answer(s, cid) == [s EXCEPT !.r = StoreAnswer(s.r, cid, r.newBal)]
    IN  CASE out = "ok" ->
                answer(Applied(Pin(st, k, r.newBal), k, r.newBal, r.amount, 0),
                       Len(st.pinned) + 1)
          [] out = "fail" ->
                answer(Applied(Remember(Failed(st), k, r.newBal), k, r.newBal,
                               r.amount, 0), 0)
          [] out = "throw" ->
                LET s == Failed(st) IN [s EXCEPT !.r = Throw(s.r)]

(* -------------- getUserBalanceByEmail (balance.ts, GET) ----------------- *)
getUserBalanceByEmail_start(st) ==
    LET r == st.r
        k == r.key
    IN  IF st.inMemoryBalances[k] # Null THEN Answer(st, st.inMemoryBalances[k])
        ELSE IF st.emailToIpfsMap[k] # 0
        THEN [st EXCEPT !.r = [r EXCEPT !.pc = "hget_fetch",
                                        !.hash = st.emailToIpfsMap[k]]]
        ELSE IF pinataConfigured
        THEN [st EXCEPT !.r = [r EXCEPT !.pc = "hget_search"]]
        ELSE Answer(st, DefaultBalanceExpress(k))

getUserBalanceByEmail_searched(st, ok) ==
    LET r == st.r
        k == r.key
        hash == IF ok THEN LatestPin(st.pinned, k) ELSE 0
    IN  IF hash # 0
        THEN [st EXCEPT !.emailToIpfsMap[k] = hash,
                        !.r = [r EXCEPT !.pc = "hget_fetch", !.hash = hash]]
        ELSE Answer(IF ok THEN st ELSE Failed(st), DefaultBalanceExpress(k))

getUserBalanceByEmail_fetched(st, ok) ==
    IF ok THEN Answer(st, st.pinned[st.r.hash].content)
    ELSE Answer(Failed(st), DefaultBalanceExpress(st.r.key))

(* ------------ handler of api/balance/email/[userEmail].ts --------------- *)
balanceEmailHandler_start(st) ==
    LET r == st.r
        k == r.key
    IN  IF st.inMemoryBalances[k] # Null THEN Answer(st, st.inMemoryBalances[k])
        ELSE IF st.emailToIpfsMap[k] # 0
        THEN [st EXCEPT !.r = [r EXCEPT !.pc = "eget_fetch",
                                        !.hash = st.emailToIpfsMap[k]]]
        ELSE IF pinataConfigured
        THEN [st EXCEPT !.r = [r EXCEPT !.pc = "eget_search"]]
        ELSE Answer(st, DefaultBalanceEdge(k, 0))

balanceEmailHandler_searched(st, ok) ==
    LET r == st.r
        k == r.key
        hash == IF ok THEN LatestPin(st.pinned, k) ELSE 0
    IN  IF hash # 0
        THEN [st EXCEPT !.emailToIpfsMap[k] = hash,
                        !.r = [r EXCEPT !.pc = "eget_fetch", !.hash = hash]]
        ELSE Answer(IF ok THEN st ELSE Failed(st), DefaultBalanceEdge(k, 0))

\* the five gateways are tried in turn, here in one step; ok: one of them
\* answered, and the snapshot is cached in memory
balanceEmailHandler_fetched(st, ok) ==
    LET k == st.r.key
        balanceData == WithRupees(st.pinned[st.r.hash].content)
    IN  IF ok THEN Answer(Remember(st, k, balanceData), balanceData)
        ELSE Answer(Failed(st), DefaultBalanceEdge(k, st.r.hash))
(* ------------------- marketplace (server/routes) ------------------------ *)
HasListing(ls, id) == id \in 1..Len(ls)
\* listings.find((l) => l.id === listingId): ids count up, the newest is first
ListingAt(ls, id) == Len(ls) - id + 1
Listing(ls, id) == ls[ListingAt(ls, id)]

NoteOf(reason, id, counterparty) == <<reason, id, counterparty>>

(* updateUserBalanceByEmail *)
updateUserBalanceByEmail_start(st) ==
    [st EXCEPT !.r = Call([st.r EXCEPT !.key = Lower(st.r.target)],
                          "iget", "upd_got")]

updateUserBalanceByEmail_loaded(st) ==
    LET r == st.r
        current == r.res
    IN  [st EXCEPT !.r = Call([r EXCEPT
            !.newTokens = (IF current = Null THEN 0 ELSE current.totalBalance)
                          + r.amount,
            !.newRupees = (IF current = Null THEN DefaultRupees
                           ELSE current.rupeesBalance) + r.deltaRupees,
            !.userId = IF current = Null THEN Undef ELSE current.userId,
            !.wallet = IF current = Null THEN Undef ELSE current.walletAddress,
            !.res = Null],
          "subi", "upd_ret")]

updateUserBalanceByEmail_stored(st) ==
    LET r == st.r
    IN  [st EXCEPT !.r = [Return(r, [totalBalance |-> r.newTokens,
                                     rupeesBalance |-> r.newRupees])
                          EXCEPT !.newTokens = 0, !.newRupees = 0,
                                 !.userId = Undef, !.wallet = Undef]]

\* the tokens of seller k in listings that are still active
RECURSIVE ActiveTokens(_, _)
ActiveTokens(ls, k) ==
    IF ls = <<>> THEN 0
    ELSE (IF Head(ls).sellerEmail = k /\ Head(ls).status = "active"
          THEN Head(ls).amountTokens ELSE 0) + ActiveTokens(Tail(ls), k)

(* createListing *)
createListing_start(st) ==
    LET r == st.r
    IN  [st EXCEPT !.r =
            IF r.amount = 0 \/ r.price = 0
            THEN Respond(r, 400, "Missing required fields", Null)
            ELSE Call([r EXCEPT !.key = Lower(r.email)], "iget", "create_got")]

SufficientTokens(available, amountTokens) == ~(available < amountTokens)

createListing_checked(st) ==
    LET r == st.r
        available == IF r.res = Null THEN 0 ELSE r.res.totalBalance
        listing == [id |-> Len(st.listings) + 1, sellerEmail |-> Lower(r.email),
                    amountTokens |-> r.amount, priceRupees |-> r.price,
                    status |-> "active", createdAt |-> now, updatedAt |-> now]
    IN  IF ~SufficientTokens(available, r.amount)
        THEN [st EXCEPT !.r = Respond(r, 400, "Insufficient token balance", Null)]
        ELSE [st EXCEPT
                !.listings = <<listing>> \o @,
                !.tally = Append(@, [ok |-> 0, credits |-> 0, debits |-> 0]),
                !.r = IF pinataConfigured
                      THEN [r EXCEPT !.pc = "create_save", !.lid = listing.id,
                                     !.res = Null]
                      ELSE [Respond(r, 201, "", listing) EXCEPT !.lid = listing.id]]

createListing_saved(st, out) ==
    LET s == IF out = "ok" THEN st ELSE Failed(st)
    IN  [s EXCEPT !.r = IF out = "throw" THEN Throw(s.r)
                        ELSE Respond(s.r, 201, "", Listing(s.listings, s.r.lid))]

(* buyListing *)
ListingAlwaysAvailable(listing) == TRUE
ListingAvailable(listing) == listing.status = "active"

\* listing.sellerEmail === buyerEmail.toLowerCase()
SelfTradeExact(listing, buyerEmail) == listing.sellerEmail = buyerEmail
SelfTrade(listing, buyerEmail) == listing.sellerEmail = Lower(buyerEmail)

buyListing_start(st) ==
    LET r == st.r
    IN  [st EXCEPT !.r =
            IF ~HasListing(st.listings, r.lid)
            THEN Respond(r, 404, "Listing not found", Null)
            ELSE IF ~ListingAvailable(Listing(st.listings, r.lid))
            THEN Respond(r, 400, "Listing not available", Null)
            ELSE IF SelfTrade(Listing(st.listings, r.lid), r.email)
            THEN Respond(r, 400, "Cannot buy your own listing", Null)
            ELSE Call([r EXCEPT !.key = Lower(r.email)], "iget", "buy_checked")]

buyListing_checked(st) ==
    LET r == st.r
        listing == Listing(st.listings, r.lid)
        rupees == IF r.res = Null THEN DefaultRupees ELSE r.res.rupeesBalance
    IN  [st EXCEPT !.r =
            IF rupees < listing.priceRupees
            THEN Respond(r, 400, "Insufficient rupees balance", Null)
            ELSE Call([r EXCEPT
                         !.target = r.email,
                         !.amount = listing.amountTokens,
                         !.deltaRupees = 0 - listing.priceRupees,
                         !.sig = NoteOf("market_buy", listing.id,
                                        listing.sellerEmail),
                         !.res = Null],
                      "upd", "buy_after_buyer")]

buyListing_buyerUpdated(st) ==
    LET r == st.r
        listing == Listing(st.listings, r.lid)
    IN  [st EXCEPT
            !.tally[r.lid].credits = @ + 1,
            !.r = Call([r EXCEPT
                          !.buyerBalance = r.res,
                          !.target = listing.sellerEmail,
                          !.amount = 0 - listing.amountTokens,
                          !.deltaRupees = listing.priceRupees,
                          !.sig = NoteOf("market_sell", listing.id, r.email),
                          !.res = Null],
                       "upd", "buy_after_seller")]

OrderOf(r, listing) ==
    [listingId |-> listing.id, buyerEmail |-> Lower(r.email),
     amountTokens |-> listing.amountTokens, totalRupees |-> listing.priceRupees,
     status |-> "completed", createdAt |-> now]

SoldStatus == "sold"

\* orders.unshift(order)
buyListing_order(st) ==
    [st EXCEPT !.orders = <<OrderOf(st.r, Listing(st.listings, st.r.lid))>> \o @]

\* res.status(200).json({ listing, order, buyerBalance, sellerBalance })
buyListing_answer(st) ==
    LET r == st.r
    IN  [st EXCEPT
            !.tally[r.lid].ok = @ + 1,
            !.r = [Respond(r, 200, "",
                           [listing |-> Listing(st.listings, r.lid),
                            order |-> Head(st.orders),
                            buyerBalance |-> r.buyerBalance,
                            sellerBalance |-> r.res])
                   EXCEPT !.buyerBalance = Null, !.amount = 0,
                          !.deltaRupees = 0, !.sig = <<>>]]

buyListing_sellerUpdated(st) ==
    LET r == st.r
        sold == [st EXCEPT
                    !.tally[r.lid].debits = @ + 1,
                    !.listings[ListingAt(st.listings, r.lid)] =
                        [@ EXCEPT !.status = SoldStatus, !.updatedAt = now]]
    IN  IF pinataConfigured
        THEN [sold EXCEPT !.r.pc = "buy_save_listings"]
        ELSE buyListing_answer(buyListing_order(sold))

buyListing_listingsSaved(st, out) ==
    LET s == IF out = "ok" THEN st ELSE Failed(st)
    IN  IF out = "throw" THEN [s EXCEPT !.r = Throw(s.r)]
        ELSE [buyListing_order(s) EXCEPT !.r.pc = "buy_save_orders"]

buyListing_ordersSaved(st, out) ==
    LET s == IF out = "ok" THEN st ELSE Failed(st)
    IN  IF out = "throw" THEN [s EXCEPT !.r = Throw(s.r)]
        ELSE buyListing_answer(s)

(* --------------------------- the event loop ----------------------------- *)
\* the code between two awaits of network I/O
Micro(st) ==
    CASE st.r.pc = "iget" -> getUserBalanceByEmailInternal_start(st)
      [] st.r.pc = "iget_ret" -> getUserBalanceByEmailInternal_caller(st)
      [] st.r.pc = "subi" -> storeUserBalanceInternal_start(st)
      [] st.r.pc = "subi_got" -> storeUserBalanceInternal_loaded(st)
      [] st.r.pc = "apply_ret" -> storeUserBalanceInternal_caller(st)
      [] st.r.pc = "store" -> storeUserBalance_start(st)
      [] st.r.pc = "hget" -> getUserBalanceByEmail_start(st)
      [] st.r.pc = "eget" -> balanceEmailHandler_start(st)
      [] st.r.pc = "upd" -> updateUserBalanceByEmail_start(st)
      [] st.r.pc = "upd_got" -> updateUserBalanceByEmail_loaded(st)
      [] st.r.pc = "upd_ret" -> updateUserBalanceByEmail_stored(st)
      [] st.r.pc = "create" -> createListing_start(st)
      [] st.r.pc = "create_got" -> createListing_checked(st)
      [] st.r.pc = "buy" -> buyListing_start(st)
      [] st.r.pc = "buy_checked" -> buyListing_checked(st)
      [] st.r.pc = "buy_after_buyer" -> buyListing_buyerUpdated(st)
      [] st.r.pc = "buy_after_seller" -> buyListing_sellerUpdated(st)

\* the handler runs until it awaits network I/O or has answered
RECURSIVE Run(_)
Run(st) ==
    IF st.r.pc \in AwaitLabels \cup {"done"} THEN st ELSE Run(Micro(st))

\* the handlers in flight take the first slots
Compact(f) ==
    IF f["p1"].pc = "idle" THEN [f EXCEPT !["p1"] = f["p2"], !["p2"] = IdleProc]
    ELSE f

\* the state after handler p ran: a handler that answered in this turn leaves
\* its frame in `response` and frees its slot
Commit(p, st, starting) ==
    /\ procs' = Compact([q \in Procs |->
                    IF q = p THEN (IF st.r.pc = "done" THEN IdleProc ELSE st.r)
                    ELSE IF starting /\ Active(q)
                         THEN [procs[q] EXCEPT !.alone = FALSE]
                         ELSE procs[q]])
    /\ response' = IF st.r.pc = "done" THEN st.r ELSE IdleProc
    /\ pinned' = st.pinned
    /\ emailToIpfsMap' = st.emailToIpfsMap
    /\ inMemoryBalances' = st.inMemoryBalances
    /\ listings' = st.listings
    /\ orders' = st.orders
    /\ faults' = st.faults
    /\ lastRet' = st.lastRet
    /\ expected' = st.expected
    /\ lastGet' = st.lastGet
    /\ tally' = st.tally
    /\ started' = IF starting THEN started + 1 ELSE started
    /\ UNCHANGED <<pinataConfigured, deployment, now>>
    /\ UNCHANGED desk

\* a request arrives and its handler runs in the first free slot
Begin(p, frame) ==
    /\ started < MaxRequests
    /\ ~Active(p)
    /\ p = "p1" \/ Active("p1")
    /\ Commit(p, Run([Cur(p) EXCEPT !.r =
                  [frame EXCEPT !.alone = \A q \in Procs : ~Active(q)]]), TRUE)

\* the network call that handler p awaits at `label` completes
Resume(p, label, st) ==
    /\ procs[p].pc = label
    /\ Commit(p, Run(st), FALSE)
(* ------------------------------ actions --------------------------------- *)
(* a direct call of getUserBalanceByEmailInternal (express server) *)
IGetStart(p, e) ==
    /\ deployment = "express"
    /\ Begin(p, [IdleProc EXCEPT !.op = "iget", !.pc = "iget",
                                 !.ret = <<"iget_ret">>, !.email = e,
                                 !.key = Lower(e),
                                 !.seen = Seen("iget", Lower(e))])

IGetSearched(p) ==
    \E ok \in ReadOutcomes :
        Resume(p, "iget_search", getUserBalanceByEmailInternal_searched(Cur(p), ok))

IGetFetched(p) ==
    \E ok \in ReadOutcomes :
        Resume(p, "iget_fetch", getUserBalanceByEmailInternal_fetched(Cur(p), ok))

(* a direct call of storeUserBalanceInternal (express server) *)
ApplyStart(p, e, d) ==
    /\ deployment = "express"
    /\ Begin(p, [IdleProc EXCEPT !.op = "apply", !.pc = "subi",
                                 !.ret = <<"apply_ret">>, !.email = e,
                                 !.target = e, !.amount = d[1],
                                 !.deltaRupees = d[2],
                                 !.sig = NoteOf("market_buy", 0, "")])

SubiUploaded(p) ==
    \E out \in UploadOutcomes :
        Resume(p, "subi_upload", storeUserBalanceInternal_uploaded(Cur(p), out))

(* POST /balance/store *)
StoreStart(p, e, ids, amount) ==
    /\ deployment \in {"express", "edge"}
    /\ Begin(p, [IdleProc EXCEPT !.op = "store", !.pc = "store", !.email = e,
                                 !.userId = ids[1], !.wallet = ids[2],
                                 !.amount = amount, !.sig = <<"admin">>])

StoreFetched(p) ==
    \E ok \in ReadOutcomes :
        Resume(p, "store_fetch", storeUserBalance_fetched(Cur(p), ok))

StoreUploaded(p) ==
    \E out \in UploadOutcomes :
        Resume(p, "store_upload", storeUserBalance_uploaded(Cur(p), out))

(* GET /balance/email/:userEmail of the express server *)
HGetStart(p, e) ==
    /\ deployment = "express"
    /\ Begin(p, [IdleProc EXCEPT !.op = "hget", !.pc = "hget", !.email = e,
                                 !.key = Lower(e),
                                 !.seen = Seen("hget", Lower(e))])

HGetSearched(p) ==
    \E ok \in ReadOutcomes :
        Resume(p, "hget_search", getUserBalanceByEmail_searched(Cur(p), ok))

HGetFetched(p) ==
    \E ok \in ReadOutcomes :
        Resume(p, "hget_fetch", getUserBalanceByEmail_fetched(Cur(p), ok))

(* GET /api/balance/email/[userEmail] of the edge deployment *)
EGetStart(p, e) ==
    /\ deployment = "edge"
    /\ Begin(p, [IdleProc EXCEPT !.op = "eget", !.pc = "eget", !.email = e,
                                 !.key = Lower(e),
                                 !.seen = Seen("eget", Lower(e))])

EGetSearched(p) ==
    \E ok \in ReadOutcomes :
        Resume(p, "eget_search", balanceEmailHandler_searched(Cur(p), ok))

EGetFetched(p) ==
    \E ok \in ReadOutcomes :
        Resume(p, "eget_fetch", balanceEmailHandler_fetched(Cur(p), ok))

(* POST /marketplace/listings *)
CreateStart(p, seller, amount, price) ==
    /\ deployment = "express"
    /\ Begin(p, [IdleProc EXCEPT
                    !.op = "create", !.pc = "create",
                    !.email = seller, !.amount = amount, !.price = price,
                    !.before =
                        [tokens |-> Addressable(Lower(seller)).totalBalance,
                         listed |-> ActiveTokens(listings, Lower(seller))]])

CreateSaved(p) ==
    \E out \in PinJsonOutcomes :
        Resume(p, "create_save", createListing_saved(Cur(p), out))

(* POST /marketplace/buy *)
BuyStart(p, id, buyer) ==
    /\ deployment = "express"
    /\ id <= Len(listings) + 1
    /\ Begin(p, [IdleProc EXCEPT
                    !.op = "buy", !.pc = "buy", !.lid = id, !.email = buyer,
                    !.before =
                        IF HasListing(listings, id)
                        THEN [status |-> Listing(listings, id).status,
                              buyer |-> Addressable(Lower(buyer)),
                              seller |-> Addressable(Listing(listings, id).sellerEmail),
                              orders |-> orders]
                        ELSE Null])

BuySavedListings(p) ==
    \E out \in PinJsonOutcomes :
        Resume(p, "buy_save_listings", buyListing_listingsSaved(Cur(p), out))

BuySavedOrders(p) ==
    \E out \in PinJsonOutcomes :
        Resume(p, "buy_save_orders", buyListing_ordersSaved(Cur(p), out))

(* the clock advances *)
Tick ==
    /\ now < MaxClock
    /\ now' = now + 1
    /\ UNCHANGED <<pinataConfigured, deployment, stores, procs, response,
                   started, faults, lastRet, expected, lastGet, tally>>
    /\ UNCHANGED desk

(* ------------- the Cloudflare Pages router (onRequest) ------------------ *)
Methods == {"GET", "POST", "PATCH", "DELETE", "OPTIONS"}

\* params.path, the segments of the URL after /api
Paths ==
    {<<"ping">>, <<"demo">>, <<"admin", "login">>, <<"admin", "validate">>,
     <<"tickets">>, <<"tickets", "t1">>, <<"tickets", "clear", "all">>,
     <<"tickets", "clear", "status">>, <<"upload-report">>,
     <<"analyze-report">>, <<"balance">>, <<"balance", "store">>,
     <<"balance", "u1">>, <<"balance", "email", "a@x.com">>,
     <<"marketplace", "list">>, <<"marketplace", "listings">>,
     <<"marketplace", "buy">>, <<"nowhere">>}

NoRoute == [method |-> "", path |-> <<>>, handler |-> "", params |-> Null]

\* path.split('/')[i + 1] of path = '/' + segments.join('/')
Segment(path, i) == IF i <= Len(path) THEN path[i] ELSE Undef

\* path.startsWith('/' + first + '/')
StartsWith(path, first) == Len(path) >= 2 /\ path[1] = first

\* the cases of switch (true), in the order of the source: the first case
\* that is true is the one that runs
Dispatch(method, path) ==
    LET to(h, ps) == [handler |-> h, params |-> ps]
        none == [none |-> TRUE]
    IN  CASE method = "OPTIONS" -> to("preflight", none)
          [] OTHER ->
        CASE path = <<"ping">> -> to("ping", none)
          [] OTHER ->
        CASE path = <<"demo">> /\ method = "GET" -> to("handleDemo", none)
          [] OTHER ->
        CASE path = <<"admin", "login">> /\ method = "POST" ->
                to("adminLogin", none)
          [] OTHER ->
        CASE path = <<"admin", "validate">> /\ method = "GET" ->
                to("validateAdminSession", none)
          [] OTHER ->
        CASE path = <<"tickets">> /\ method = "GET" -> to("listTickets", none)
          [] OTHER ->
        CASE path = <<"tickets">> /\ method = "POST" -> to("createTicket", none)
          [] OTHER ->
        CASE StartsWith(path, "tickets") /\ method = "GET" ->
                to("getTicket", [id |-> Segment(path, 2)])
          [] OTHER ->
        CASE StartsWith(path, "tickets") /\ method = "PATCH" ->
                to("updateTicketStatus", [id |-> Segment(path, 2)])
          [] OTHER ->
        CASE StartsWith(path, "tickets") /\ method = "DELETE" ->
                to("deleteTicket", [id |-> Segment(path, 2)])
          [] OTHER ->
        CASE path = <<"tickets", "clear", "all">> /\ method = "DELETE" ->
                to("clearAllTickets", none)
          [] OTHER ->
        CASE path = <<"tickets", "clear", "status">> /\ method = "DELETE" ->
                to("clearTicketsByStatus", none)
          [] OTHER ->
        CASE path = <<"upload-report">> /\ method = "POST" ->
                to("uploadReport", none)
          [] OTHER ->
        CASE path = <<"analyze-report">> /\ method = "POST" ->
                to("analyzeReport", none)
          [] OTHER ->
        CASE path = <<"balance", "store">> /\ method = "POST" ->
                to("storeUserBalance", none)
          [] OTHER ->
        CASE StartsWith(path, "balance") /\ method = "GET" ->
                to("getUserBalance", [userId |-> Segment(path, 2)])
          [] OTHER ->
        CASE StartsWith(path, "balance") /\ path[2] = "email"
                 /\ Len(path) >= 3 /\ method = "GET" ->
                to("getUserBalanceByEmail", [userEmail |-> Segment(path, 3)])
          [] OTHER ->
        CASE path = <<"balance">> /\ method = "GET" ->
                to("getAllBalances", none)
          [] OTHER ->
        CASE path = <<"marketplace", "list">> /\ method = "POST" ->
                to("createListing", none)
          [] OTHER ->
        CASE path = <<"marketplace", "listings">> /\ method = "GET" ->
                to("listListings", none)
          [] OTHER ->
        CASE path = <<"marketplace", "buy">> /\ method = "POST" ->
                to("buyListing", none)
          [] OTHER -> to("Not Found", none)

\* a request reaches the Pages function: the handler it is given to and the
\* req.params the handler gets
onRequest(method, path) ==
    /\ started < MaxRequests
    /\ started' = started + 1
    /\ route' = [method |-> method, path |-> path,
                 handler |-> Dispatch(method, path).handler,
                 params |-> Dispatch(method, path).params]
    /\ UNCHANGED <<market, now, retry, tickets, adminSessions, verdict, client>>

(* ------------------ withRetry (exponential backoff) --------------------- *)
DEFAULT_RETRY_OPTIONS ==
    [maxRetries |-> 3, baseDelay |-> 1000, maxDelay |-> 10000,
     backoffMultiplier |-> 2]

\* "api": the helper of the API client, which looks at the status of the
\* error; "contract": the helper of the contract utilities, which looks at
\* its message
RetryVariants == {"api", "contract"}

\* what a rejected operation throws: status is 0 when the error has none, and
\* the message is a sequence of words
Errors ==
    {[status |-> 0, message |-> <<"Failed", "to", "fetch">>],
     [status |-> 400, message |-> <<"HTTP", "400">>],
     [status |-> 404, message |-> <<"HTTP", "404">>],
     [status |-> 429, message |-> <<"HTTP", "429">>],
     [status |-> 500, message |-> <<"HTTP", "500">>],
     [status |-> 0, message |-> <<"Invalid", "contract", "address">>]}

\* request, base and before belong to a call of the API client: the body it
\* posts, the number of requests the server had started when it was called,
\* and what the ledger showed then
IdleRetry ==
    [variant |-> "", pc |-> "idle", attempt |-> 0, calls |-> 0,
     lastError |-> Null, delay |-> 0,
     request |-> Null, base |-> 0, before |-> Null]

\* error.message.includes(word)
Includes(message, word) == \E i \in 1..Len(message) : message[i] = word

RECURSIVE Pow(_, _)
Pow(b, n) == IF n = 0 THEN 1 ELSE b * Pow(b, n - 1)

Min(a, b) == IF a < b THEN a ELSE b

\* Math.min(baseDelay * backoffMultiplier ** attempt, maxDelay)
Delay(config, attempt) ==
    Min(config.baseDelay * Pow(config.backoffMultiplier, attempt),
        config.maxDelay)

RetryAnyError(variant, error) == FALSE
\* the errors that are thrown at once, without another attempt
DontRetry(variant, error) ==
    IF variant = "api"
    THEN /\ error.status # 0
         /\ error.status >= 400 /\ error.status < 500
         /\ error.status # 429
    ELSE \/ Includes(error.message, "User") /\ Includes(error.message, "rejected")
         \/ Includes(error.message, "Invalid")
         \/ Includes(error.message, "Unauthorized")

\* withRetry(operation) is called: attempt 0 invokes the operation
withRetry_start(variant) ==
    /\ started < MaxRequests
    /\ retry.pc \in {"idle", "returned", "thrown"}
    /\ started' = started + 1
    /\ retry' = [IdleRetry EXCEPT !.variant = variant, !.pc = "operation",
                                  !.calls = 1]
    /\ UNCHANGED <<market, now, route, tickets, adminSessions, verdict, client>>

\* the promise of the operation settles: the value is returned, or the catch
\* block throws the error or starts the timer of the backoff
operation_settled ==
    /\ retry.pc = "operation"
    /\ \E out \in {Null} \cup Errors :
          LET config == DEFAULT_RETRY_OPTIONS
          IN  retry' =
                IF out = Null THEN [retry EXCEPT !.pc = "returned"]
                ELSE IF retry.attempt = config.maxRetries
                THEN [retry EXCEPT !.pc = "thrown", !.lastError = out]
                ELSE IF DontRetry(retry.variant, out)
                THEN [retry EXCEPT !.pc = "thrown", !.lastError = out]
                ELSE [retry EXCEPT !.pc = "sleeping", !.lastError = out,
                                   !.delay = Delay(config, retry.attempt)]
    /\ UNCHANGED <<market, now, started, route, tickets, adminSessions, verdict, client>>

\* the timer fires: attempt++ and, as attempt <= maxRetries, the operation is
\* invoked again
delay_elapsed ==
    /\ retry.pc = "sleeping"
    /\ retry.attempt + 1 <= DEFAULT_RETRY_OPTIONS.maxRetries
    /\ retry' = [retry EXCEPT !.pc = "operation", !.attempt = @ + 1,
                              !.calls = @ + 1]
    /\ UNCHANGED <<market, now, started, route, tickets, adminSessions, verdict, client>>

(* ------------------- admin sessions and tickets ------------------------- *)
\* bounds of the clock of the ticket desk, in hours
MaxHours == 12
ClockStepHours == 4

MsPerHour == 60 * 60 * 1000
SessionHours == 8

\* a token is the number of the request that created it; header 0 is no header
Tokens == 1..MaxRequests
TokenInputs == {0} \cup Tokens
TicketIds == 1..MaxRequests
TicketActions == {"approve", "reject", "setTxHash", "other"}
TxHashes == {"", "0xabc"}
Passwords == {"admin", "guess"}

NoAnswer == [op |-> "", status |-> 0, token |-> 0, exp |-> 0]

\* adminSessions.set(token, Date.now() + hours * 60 * 60 * 1000)
createAdminSession(sessions, token, hours) ==
    [sessions EXCEPT ![token] = now + hours * MsPerHour]

validateAdminAnyAge(sessions, token) ==
    token # 0 /\ sessions[token] # 0
validateAdmin(sessions, token) ==
    IF token = 0 THEN FALSE
    ELSE IF sessions[token] = 0 THEN FALSE
    ELSE IF now > sessions[token] THEN FALSE
    ELSE TRUE

SessionsKept(sessions, token) == sessions
\* validateAdmin deletes the session it finds expired
SessionsAfterValidate(sessions, token) ==
    IF token # 0 /\ sessions[token] # 0 /\ now > sessions[token]
    THEN [sessions EXCEPT ![token] = 0]
    ELSE sessions

HasTicket(ts, id) == \E i \in 1..Len(ts) : ts[i].id = id
TicketAt(ts, id) == CHOOSE i \in 1..Len(ts) : ts[i].id = id

\* the updater of updateTicketStatus
UpdatedTicket(prev, action, txHash) ==
    CASE action = "approve" ->
            [prev EXCEPT !.status = "approved",
                         !.txHash = IF txHash # "" THEN txHash ELSE @,
                         !.updatedAt = now]
      [] action = "reject" ->
            [prev EXCEPT !.status = "rejected", !.updatedAt = now]
      [] action = "setTxHash" ->
            [prev EXCEPT !.txHash = IF txHash # "" THEN txHash ELSE @,
                         !.updatedAt = now]
      [] OTHER -> prev

(* POST /admin/login *)
adminLogin(password) ==
    /\ started < MaxRequests
    /\ started' = started + 1
    /\ IF password # "admin"
       THEN /\ verdict' = [op |-> "login", status |-> 401, token |-> 0, exp |-> 0]
            /\ UNCHANGED adminSessions
       ELSE /\ adminSessions' =
                   createAdminSession(adminSessions, started + 1, SessionHours)
            /\ verdict' = [op |-> "login", status |-> 200, token |-> started + 1,
                          exp |-> now + SessionHours * MsPerHour]
    /\ UNCHANGED <<market, now, route, retry, tickets, client>>

(* POST /tickets *)
createTicket(complete) ==
    /\ started < MaxRequests
    /\ started' = started + 1
    /\ IF ~complete
       THEN /\ verdict' = [op |-> "create", status |-> 400, token |-> 0, exp |-> 0]
            /\ UNCHANGED tickets
       ELSE /\ tickets' = <<[id |-> Len(tickets) + 1, status |-> "pending",
                             txHash |-> Undef, createdAt |-> now,
                             updatedAt |-> now]>> \o tickets
            /\ verdict' = [op |-> "create", status |-> 201, token |-> 0, exp |-> 0]
    /\ UNCHANGED <<market, now, route, retry, adminSessions, client>>

(* PATCH /tickets/:id *)
updateTicketStatus(token, id, action, txHash) ==
    LET reply(status) ==
            [op |-> "update", status |-> status, token |-> token,
             exp |-> IF token = 0 THEN 0 ELSE adminSessions[token]]
    IN  /\ started < MaxRequests
        /\ started' = started + 1
        /\ adminSessions' = SessionsAfterValidate(adminSessions, token)
        /\ IF ~validateAdmin(adminSessions, token)
           THEN verdict' = reply(401) /\ UNCHANGED tickets
           ELSE IF ~HasTicket(tickets, id)
           THEN verdict' = reply(404) /\ UNCHANGED tickets
           ELSE /\ tickets' =
                       [tickets EXCEPT ![TicketAt(tickets, id)] =
                            UpdatedTicket(@, action, txHash)]
                /\ verdict' = reply(200)
        /\ UNCHANGED <<market, now, route, retry, client>>

(* the clock of the ticket desk advances *)
HoursPass ==
    /\ now + ClockStepHours * MsPerHour <= MaxHours * MsPerHour
    /\ now' = now + ClockStepHours * MsPerHour
    /\ UNCHANGED <<market, started, desk>>

(* ----------------- the rate limiter of the API client ------------------- *)
RATE_LIMIT_WINDOW == 60000
MAX_REQUESTS_PER_WINDOW == 30

\* the clock of the browser runs for this many windows, in steps of half one
MaxWindows == 2

Endpoints == {"market-buy-listing", "upload-report"}

WindowFullLate(limit) == limit.count > MAX_REQUESTS_PER_WINDOW
\* limit.count >= MAX_REQUESTS_PER_WINDOW
WindowFull(limit) == limit.count >= MAX_REQUESTS_PER_WINDOW

\* the map after checkRateLimit(endpoint)
RateLimitAfter(map, endpoint) ==
    LET limit == map[endpoint]
    IN  IF limit = Null \/ now > limit.resetTime
        THEN [map EXCEPT ![endpoint] =
                 [count |-> 1, resetTime |-> now + RATE_LIMIT_WINDOW]]
        ELSE IF WindowFull(limit) THEN map
        ELSE [map EXCEPT ![endpoint].count = @ + 1]

\* the value checkRateLimit(endpoint) returns
RateLimitAllows(map, endpoint) ==
    LET limit == map[endpoint]
    IN  IF limit = Null \/ now > limit.resetTime THEN TRUE
        ELSE ~WindowFull(limit)

\* the windows as the calls define them: the first allowed call of an
\* endpoint opens a window of RATE_LIMIT_WINDOW ms, and so does the first
\* call after the window has passed
WindowsAfter(ws, endpoint, allowed) ==
    LET w == ws[endpoint]
    IN  IF w = Null \/ now > w.start + RATE_LIMIT_WINDOW
        THEN IF allowed
             THEN [ws EXCEPT ![endpoint] =
                      [start |-> now, granted |-> 1, refused |-> FALSE]]
             ELSE ws
        ELSE IF allowed THEN [ws EXCEPT ![endpoint].granted = @ + 1]
        ELSE [ws EXCEPT ![endpoint].refused = TRUE]

checkRateLimit(endpoint) ==
    /\ rateLimitMap' = RateLimitAfter(rateLimitMap, endpoint)
    /\ windows' = WindowsAfter(windows, endpoint,
                                RateLimitAllows(rateLimitMap, endpoint))
    /\ UNCHANGED <<market, now, started, route, retry, tickets, adminSessions,
                   verdict, hook, pending>>

(* Date.now() of the browser advances *)
HalfWindowPasses ==
    /\ now + RATE_LIMIT_WINDOW \div 2 <= MaxWindows * RATE_LIMIT_WINDOW
    /\ now' = now + RATE_LIMIT_WINDOW \div 2
    /\ UNCHANGED <<market, started, desk>>

(* --------------------------- the wallet hook ---------------------------- *)
\* useWallet with MetaMask available.  The two requests of initializeWallet
\* and of connect (the accounts, then eth_chainId) settle in one step.
\* localStorage either works for the whole session or throws on every access
\* (storage), which the helpers catch.
maxReconnectAttempts == 3

None == "null"
Accounts == {"0xA", "0xB"}
ChainIds == {"0x1"}
MaxReached == "Maximum reconnection attempts reached"

\* before the component is mounted: useState and useRef, and the ghosts
\* requests (eth_requestAccounts issued), quiet (disconnect() was called and
\* the user has called neither connect() nor retryConnection() since),
\* noConnect (disconnect() was called and connect() has not run since) and
\* heard (an accountsChanged event arrived while noConnect)
InitialWallet ==
    [mounted |-> FALSE, storage |-> TRUE,
     account |-> None, chainId |-> None, isConnecting |-> FALSE,
     isConnected |-> FALSE, error |-> None,
     reconnectAttempts |-> 0, reconnectTimeoutRef |-> FALSE,
     manualFlag |-> FALSE, adminLock |-> FALSE,
     storedAccount |-> None, storedChainId |-> None,
     calls |-> 0, requests |-> 0, quiet |-> FALSE, noConnect |-> FALSE,
     heard |-> FALSE]

getManualFlag(h) == h.storage /\ h.manualFlag

setManualFlag(h, value) ==
    IF h.storage THEN [h EXCEPT !.manualFlag = value] ELSE h

getAdminLock(h) == h.storage /\ h.adminLock

setAdminLock(h, value) ==
    IF h.storage THEN [h EXCEPT !.adminLock = value] ELSE h

\* setStoredConnection(account, chainId)
setStoredConnection(h, account, chainId) ==
    IF h.storage
    THEN [h EXCEPT !.storedAccount = account, !.storedChainId = chainId]
    ELSE h

\* pending without its i-th element
Without(q, i) == [j \in 1..(Len(q) - 1) |-> IF j < i THEN q[j] ELSE q[j + 1]]

\* clearTimeout(reconnectTimeoutRef.current): the timer the ref holds, if it
\* has not fired, is the one marked current
RECURSIVE ClearCurrentTimer(_)
ClearCurrentTimer(q) ==
    IF q = <<>> THEN <<>>
    ELSE IF Head(q).kind = "timer" /\ Head(q).current
         THEN ClearCurrentTimer(Tail(q))
         ELSE <<Head(q)>> \o ClearCurrentTimer(Tail(q))

\* reconnectTimeoutRef.current = setTimeout(...): the ref leaves the timer it
\* held
NotCurrent(q) ==
    [j \in 1..Len(q) |->
        IF q[j].kind = "timer" THEN [q[j] EXCEPT !.current = FALSE] ELSE q[j]]

(* the component mounts: both effects run, up to the await of eth_accounts *)
useWallet_mounted(storage, manual, stored) ==
    /\ ~hook.mounted
    /\ storage \/ (~manual /\ stored = None)
    /\ LET h == [hook EXCEPT !.mounted = TRUE, !.storage = storage,
                             !.manualFlag = manual,
                             !.storedAccount = stored,
                             !.storedChainId =
                                 IF stored = None THEN None ELSE "0x1"]
       IN  IF manual
           THEN /\ hook' = h
                /\ pending' = pending
           ELSE /\ hook' = IF stored # None
                           THEN [h EXCEPT !.account = stored,
                                          !.chainId = h.storedChainId,
                                          !.isConnected = TRUE]
                           ELSE h
                /\ pending' = Append(pending, [kind |-> "init"])
    /\ UNCHANGED <<market, now, started, route, retry, tickets, adminSessions,
                   verdict, rateLimitMap, windows>>

(* eth_accounts and eth_chainId of initializeWallet settle *)
initializeWallet_settled(i, accounts, ok) ==
    /\ i \in 1..Len(pending) /\ pending[i].kind = "init"
    /\ pending' = Without(pending, i)
    /\ hook' =
          IF ~ok
          THEN [hook EXCEPT !.error = "Failed to initialize wallet connection"]
          ELSE IF accounts # <<>>
          THEN setStoredConnection(
                   [hook EXCEPT !.account = accounts[1], !.chainId = "0x1",
                                !.isConnected = TRUE, !.error = None],
                   accounts[1], "0x1")
          ELSE setStoredConnection(
                   [hook EXCEPT !.account = None, !.chainId = "0x1",
                                !.isConnected = FALSE],
                   None, "0x1")
    /\ UNCHANGED <<market, now, started, route, retry, tickets, adminSessions,
                   verdict, rateLimitMap, windows>>

\* connect(): the code up to the await of eth_requestAccounts
ConnectBegun(h, lock) ==
    setAdminLock(
        setManualFlag(
            [h EXCEPT !.isConnecting = TRUE, !.error = None,
                      !.requests = @ + 1, !.noConnect = FALSE,
                      !.heard = FALSE],
            FALSE),
        lock)

AttemptsLeftOneMore(attempts) == ~(attempts > maxReconnectAttempts)
\* reconnectAttempts.current >= maxReconnectAttempts is false
AttemptsLeft(attempts) == ~(attempts >= maxReconnectAttempts)

\* retryConnection(): up to the await of connect()
RetryBegun(h) ==
    IF ~AttemptsLeft(h.reconnectAttempts)
    THEN [h EXCEPT !.error = MaxReached]
    ELSE ConnectBegun([h EXCEPT !.reconnectAttempts = @ + 1], FALSE)

RetryPending(h, q) ==
    IF ~AttemptsLeft(h.reconnectAttempts) THEN q
    ELSE Append(q, [kind |-> "connect", via |-> "retry"])

(* the user calls connect(options) *)
connect(lock) ==
    /\ hook.mounted /\ hook.calls < MaxRequests
    /\ hook' = [ConnectBegun(hook, lock) EXCEPT !.calls = @ + 1,
                                                !.quiet = FALSE]
    /\ pending' = Append(pending, [kind |-> "connect", via |-> "user"])
    /\ UNCHANGED <<market, now, started, route, retry, tickets, adminSessions,
                   verdict, rateLimitMap, windows>>

(* eth_requestAccounts (and eth_chainId) of a connect() settle *)
connect_settled(i, accounts, ok) ==
    /\ i \in 1..Len(pending) /\ pending[i].kind = "connect"
    /\ IF ok /\ accounts # <<>>
       THEN /\ hook' = setStoredConnection(
                          [hook EXCEPT !.account = accounts[1],
                                       !.chainId = "0x1",
                                       !.isConnected = TRUE,
                                       !.isConnecting = FALSE,
                                       !.error = None,
                                       !.reconnectAttempts = 0],
                          accounts[1], "0x1")
            /\ pending' = Without(pending, i)
       ELSE LET failed == [hook EXCEPT
                              !.isConnecting = FALSE,
                              !.error = IF ok THEN "No accounts found"
                                        ELSE "User rejected the request"]
                \* Math.min(1000 * Math.pow(2, attempts), 10000)
                delay == Min(1000 * Pow(2, hook.reconnectAttempts), 10000)
            IN  IF pending[i].via = "retry"
                THEN /\ hook' = [failed EXCEPT !.reconnectTimeoutRef = TRUE]
                     /\ pending' =
                            Append(NotCurrent(Without(pending, i)),
                                   [kind |-> "timer", current |-> TRUE,
                                    delay |-> delay])
                ELSE /\ hook' = failed
                     /\ pending' = Without(pending, i)
    /\ UNCHANGED <<market, now, started, route, retry, tickets, adminSessions,
                   verdict, rateLimitMap, windows>>

(* the user calls retryConnection() *)
retryConnection ==
    /\ hook.mounted /\ hook.calls < MaxRequests
    /\ hook' = [RetryBegun(hook) EXCEPT !.calls = @ + 1, !.quiet = FALSE]
    /\ pending' = RetryPending(hook, pending)
    /\ UNCHANGED <<market, now, started, route, retry, tickets, adminSessions,
                   verdict, rateLimitMap, windows>>

(* a timer of retryConnection fires *)
timer_fired(i) ==
    /\ i \in 1..Len(pending) /\ pending[i].kind = "timer"
    /\ hook' = RetryBegun(hook)
    /\ pending' = RetryPending(hook, Without(pending, i))
    /\ UNCHANGED <<market, now, started, route, retry, tickets, adminSessions,
                   verdict, rateLimitMap, windows>>

(* the user calls disconnect() *)
disconnect ==
    /\ hook.mounted /\ hook.calls < MaxRequests
    /\ hook' = setStoredConnection(
                   [setAdminLock(setManualFlag(hook, TRUE), FALSE) EXCEPT
                                !.account = None, !.isConnected = FALSE,
                                !.error = None,
                                !.reconnectTimeoutRef = FALSE,
                                !.reconnectAttempts = 0,
                                !.calls = @ + 1,
                                !.quiet = TRUE, !.noConnect = TRUE,
                                !.heard = FALSE],
                   None, None)
    /\ pending' = IF hook.reconnectTimeoutRef THEN ClearCurrentTimer(pending)
                  ELSE pending
    /\ UNCHANGED <<market, now, started, route, retry, tickets, adminSessions,
                   verdict, rateLimitMap, windows>>

AccountsChangedAlways(h, accounts) ==
    LET account == IF accounts = <<>> THEN None ELSE accounts[1]
    IN  setStoredConnection(
            [h EXCEPT !.account = account, !.isConnected = account # None,
                      !.error = None],
            account, h.chainId)
\* handleAccountsChanged
AccountsChanged(h, accounts) ==
    IF getManualFlag(h) THEN h
    ELSE IF getAdminLock(h) THEN h
    ELSE LET account == IF accounts = <<>> THEN None ELSE accounts[1]
         IN  setStoredConnection(
                 [h EXCEPT !.account = account, !.isConnected = account # None,
                           !.error = None],
                 account, h.chainId)

(* the provider's accountsChanged event *)
handleAccountsChanged(accounts) ==
    /\ hook.mounted
    /\ hook' = [AccountsChanged(hook, accounts) EXCEPT
                    !.heard = hook.noConnect]
    /\ UNCHANGED <<market, now, started, route, retry, tickets, adminSessions,
                   verdict, rateLimitMap, windows, pending>>

DisconnectedKeepsFlag(h) ==
    setStoredConnection([h EXCEPT !.account = None], None, h.chainId)
\* handleDisconnect
Disconnected(h) ==
    setStoredConnection([h EXCEPT !.account = None, !.isConnected = FALSE],
                        None, h.chainId)

(* the provider's chainChanged, connect and disconnect events *)
handleChainChanged(chainId) ==
    /\ hook.mounted
    /\ hook' = setStoredConnection([hook EXCEPT !.chainId = chainId,
                                                !.error = None],
                                   hook.account, chainId)
    /\ UNCHANGED <<market, now, started, route, retry, tickets, adminSessions,
                   verdict, rateLimitMap, windows, pending>>

handleConnect ==
    /\ hook.mounted
    /\ hook' = [hook EXCEPT !.error = None]
    /\ UNCHANGED <<market, now, started, route, retry, tickets, adminSessions,
                   verdict, rateLimitMap, windows, pending>>

handleDisconnect ==
    /\ hook.mounted
    /\ hook' = Disconnected(hook)
    /\ UNCHANGED <<market, now, started, route, retry, tickets, adminSessions,
                   verdict, rateLimitMap, windows, pending>>

(* -------------------------------- Init ---------------------------------- *)
\* a snapshot pinned by an earlier process: 50 tokens approved by the admin
SeedBalance ==
    [userEmail |-> "a", userId |-> "u1", walletAddress |-> "w1",
     totalBalance |-> 50, rupeesBalance |-> DefaultRupees,
     transactions |-> <<[amount |-> 50, adminSignature |-> <<"admin">>,
                         ticketId |-> <<"ticket", 0>>, walletAddress |-> "w1",
                         userEmail |-> "a", timestamp |-> 0]>>,
     lastUpdated |-> 0]

Init ==
    /\ pinataConfigured \in BOOLEAN
    /\ deployment \in {"express", "edge"}
    /\ now = 0
    /\ pinned \in IF pinataConfigured
                  THEN {<<>>, <<[name |-> "a", content |-> SeedBalance]>>}
                  ELSE {<<>>}
    /\ emailToIpfsMap = [k \in Keys |-> 0]
    /\ inMemoryBalances = [k \in Keys |-> Null]
    /\ listings = <<>>
    /\ orders = <<>>
    /\ procs = [p \in Procs |-> IdleProc]
    /\ response = IdleProc
    /\ started = 0
    /\ faults = 0
    /\ lastRet = [k \in Keys |-> Null]
    /\ expected = [k \in Keys |->
                      [n |-> 0,
                       tokens |-> IF k = "a" /\ pinned # <<>> THEN 50 ELSE 0,
                       rupees |-> DefaultRupees]]
    /\ lastGet = [k \in Keys |-> Null]
    /\ tally = <<>>
    /\ route = NoRoute
    /\ retry = IdleRetry
    /\ tickets = <<>>
    /\ adminSessions = [t \in Tokens |-> 0]
    /\ verdict = NoAnswer
    /\ rateLimitMap = [e \in Endpoints |-> Null]
    /\ windows = [e \in Endpoints |-> Null]
    /\ hook = InitialWallet
    /\ pending = <<>>

(* ------------------------ the balance ledger ---------------------------- *)
LedgerEmails == {"A"}

NextLedger ==
    \/ \E p \in Procs, e \in LedgerEmails, ids \in IdInputs, amount \in AdminAmounts :
            StoreStart(p, e, ids, amount)
    \/ \E p \in Procs : StoreFetched(p)
    \/ \E p \in Procs : StoreUploaded(p)
    \/ \E p \in Procs, e \in LedgerEmails, d \in DeltaInputs : ApplyStart(p, e, d)
    \/ \E p \in Procs : SubiUploaded(p)
    \/ \E p \in Procs, e \in LedgerEmails : IGetStart(p, e)
    \/ \E p \in Procs : IGetSearched(p)
    \/ \E p \in Procs : IGetFetched(p)
    \/ \E p \in Procs, e \in LedgerEmails : HGetStart(p, e)
    \/ \E p \in Procs : HGetSearched(p)
    \/ \E p \in Procs : HGetFetched(p)
    \/ \E p \in Procs, e \in LedgerEmails : EGetStart(p, e)
    \/ \E p \in Procs : EGetSearched(p)
    \/ \E p \in Procs : EGetFetched(p)

SpecLedger == Init /\ [][NextLedger]_vars

(* ------------- reading balances while the clock advances ---------------- *)
NextClock ==
    \/ \E p \in Procs, e \in LedgerEmails, ids \in IdInputs, amount \in AdminAmounts :
            StoreStart(p, e, ids, amount)
    \/ \E p \in Procs : StoreFetched(p)
    \/ \E p \in Procs : StoreUploaded(p)
    \/ \E p \in Procs, e \in LedgerEmails : IGetStart(p, e)
    \/ \E p \in Procs : IGetSearched(p)
    \/ \E p \in Procs : IGetFetched(p)
    \/ \E p \in Procs, e \in LedgerEmails : HGetStart(p, e)
    \/ \E p \in Procs : HGetSearched(p)
    \/ \E p \in Procs : HGetFetched(p)
    \/ \E p \in Procs, e \in LedgerEmails : EGetStart(p, e)
    \/ \E p \in Procs : EGetSearched(p)
    \/ \E p \in Procs : EGetFetched(p)
    \/ Tick

SpecClock == Init /\ [][NextClock]_vars

(* ----- the marketplace of the express server, with admin approvals ------ *)
Sellers == {"a"}
Buyers == {"b", "A"}
\* the ids of the listings there are and one there is not
ListingIds == 1..MaxRequests

Next ==
    \/ \E p \in Procs, e \in LedgerEmails, ids \in IdInputs, amount \in AdminAmounts :
            StoreStart(p, e, ids, amount)
    \/ \E p \in Procs : StoreFetched(p)
    \/ \E p \in Procs : StoreUploaded(p)
    \/ \E p \in Procs, e \in Sellers, amount \in ListingAmounts,
          price \in ListingPrices : CreateStart(p, e, amount, price)
    \/ \E p \in Procs : CreateSaved(p)
    \/ \E p \in Procs, id \in ListingIds, e \in Buyers :
            BuyStart(p, id, e)
    \/ \E p \in Procs : IGetSearched(p)
    \/ \E p \in Procs : IGetFetched(p)
    \/ \E p \in Procs : SubiUploaded(p)
    \/ \E p \in Procs : BuySavedListings(p)
    \/ \E p \in Procs : BuySavedOrders(p)

InitMarket == Init /\ deployment = "express"

Spec == InitMarket /\ [][Next]_vars

(* --------- listing requests with absent and negative numbers ------------ *)
\* amountTokens and priceRupees of a request body: negative, absent or 0
\* (both falsy), and positive
RequestNumbers == {0 - 20, 0, 20}

NextListing ==
    \/ \E p \in Procs, e \in Sellers, amount \in RequestNumbers,
          price \in RequestNumbers : CreateStart(p, e, amount, price)
    \/ \E p \in Procs : CreateSaved(p)
    \/ \E p \in Procs : IGetSearched(p)
    \/ \E p \in Procs : IGetFetched(p)

SpecListing == InitMarket /\ [][NextListing]_vars

(* ------------------ the requests of the Pages router -------------------- *)
InitDesk == Init /\ deployment = "express" /\ ~pinataConfigured

NextRouter == \E method \in Methods, path \in Paths : onRequest(method, path)

SpecRouter == InitDesk /\ [][NextRouter]_vars

(* --------------------- calls of the retry helper ------------------------ *)
NextRetry ==
    \/ \E variant \in RetryVariants : withRetry_start(variant)
    \/ operation_settled
    \/ delay_elapsed

\* every invocation of the operation settles and every timer fires
SpecRetry ==
    /\ InitDesk /\ [][NextRetry]_vars
    /\ WF_vars(operation_settled) /\ WF_vars(delay_elapsed)

(* --------------------------- the ticket desk ---------------------------- *)
NextTickets ==
    \/ \E password \in Passwords : adminLogin(password)
    \/ \E complete \in BOOLEAN : createTicket(complete)
    \/ \E token \in TokenInputs, id \in TicketIds, action \in TicketActions,
          txHash \in TxHashes : updateTicketStatus(token, id, action, txHash)
    \/ HoursPass

SpecTickets == InitDesk /\ [][NextTickets]_vars

(* ------------- buys of a listing dearer than half the default ----------- *)
\* a price of which the default 100 rupees pay one buy but not two
DearPrices == {60}

NextDear ==
    \/ \E p \in Procs, e \in Sellers, amount \in ListingAmounts,
          price \in DearPrices : CreateStart(p, e, amount, price)
    \/ \E p \in Procs : CreateSaved(p)
    \/ \E p \in Procs, id \in ListingIds, e \in Buyers :
            BuyStart(p, id, e)
    \/ \E p \in Procs : IGetSearched(p)
    \/ \E p \in Procs : IGetFetched(p)
    \/ \E p \in Procs : SubiUploaded(p)
    \/ \E p \in Procs : BuySavedListings(p)
    \/ \E p \in Procs : BuySavedOrders(p)

SpecDear == InitMarket /\ [][NextDear]_vars

(* ------------------------- the rate limiter ----------------------------- *)
NextRate ==
    \/ \E endpoint \in Endpoints : checkRateLimit(endpoint)
    \/ HalfWindowPasses

SpecRate == InitDesk /\ [][NextRate]_vars

(* ----------------------- Api.buyListing (client) ------------------------ *)
\* The browser calls Api.buyListing while the server is idle, and nothing
\* else is sent to the server before the call has returned or thrown.
ClientBusy == retry.pc \in {"send", "sleeping"}

\* the request of the current attempt has not reached the server yet
Unsent == retry.pc = "send" /\ started - retry.base = retry.attempt

\* the server has answered the request of the current attempt
Replied ==
    /\ retry.pc = "send" /\ started - retry.base = retry.attempt + 1
    /\ response.op = "buy" /\ response.pc = "done"

(* Api.buyListing(body): checkRateLimit, then withRetry up to the fetch *)
Api_buyListing(id, buyer) ==
    /\ started < MaxRequests
    /\ ~ClientBusy
    /\ \A q \in Procs : ~Active(q)
    /\ LET endpoint == "market-buy-listing"
           allowed == RateLimitAllows(rateLimitMap, endpoint)
       IN  /\ rateLimitMap' = RateLimitAfter(rateLimitMap, endpoint)
           /\ windows' = WindowsAfter(windows, endpoint, allowed)
           /\ retry' =
                IF allowed
                THEN [IdleRetry EXCEPT
                        !.variant = "api", !.pc = "send", !.calls = 1,
                        !.request = [listingId |-> id, buyerEmail |-> buyer],
                        !.base = started,
                        !.before =
                            [credits |-> IF id \in DOMAIN tally
                                         THEN tally[id].credits ELSE 0,
                             orders |-> Len(orders)]]
                ELSE [IdleRetry EXCEPT
                        !.variant = "api", !.pc = "thrown",
                        !.lastError =
                            [status |-> 0,
                             message |-> <<"Rate", "limit", "exceeded">>]]
    /\ UNCHANGED <<market, now, started, route, tickets, adminSessions,
                   verdict, hook, pending>>

(* the POST /api/marketplace/buy of the current attempt reaches the server *)
fetch_arrived(p) ==
    /\ Unsent
    /\ BuyStart(p, retry.request.listingId, retry.request.buyerEmail)

(* the response arrives: handleResponse returns the body of a 2xx and throws
   an ApiError with the status otherwise; the catch block of withRetry throws
   it or starts the timer *)
fetch_settled ==
    /\ Replied
    /\ LET config == DEFAULT_RETRY_OPTIONS
           error == [status |-> response.status, message |-> <<"HTTP">>]
       IN  retry' =
             IF response.status >= 200 /\ response.status < 300
             THEN [retry EXCEPT !.pc = "returned"]
             ELSE IF retry.attempt = config.maxRetries
             THEN [retry EXCEPT !.pc = "thrown", !.lastError = error]
             ELSE IF DontRetry("api", error)
             THEN [retry EXCEPT !.pc = "thrown", !.lastError = error]
             ELSE [retry EXCEPT !.pc = "sleeping", !.lastError = error,
                                !.delay = Delay(config, retry.attempt)]
    /\ UNCHANGED <<market, now, started, route, tickets, adminSessions,
                   verdict, client>>

(* the timer of the backoff fires: the next attempt *)
backoff_elapsed ==
    /\ retry.pc = "sleeping"
    /\ retry.request # Null
    /\ started < MaxRequests
    /\ retry' = [retry EXCEPT !.pc = "send", !.attempt = @ + 1,
                              !.calls = @ + 1]
    /\ UNCHANGED <<market, now, started, route, tickets, adminSessions,
                   verdict, client>>

NextClient ==
    \/ \E p \in Procs, e \in Sellers, amount \in ListingAmounts,
          price \in ListingPrices :
            ~ClientBusy /\ CreateStart(p, e, amount, price)
    \/ \E p \in Procs : CreateSaved(p)
    \/ \E id \in ListingIds, e \in Buyers : Api_buyListing(id, e)
    \/ \E p \in Procs : fetch_arrived(p)
    \/ fetch_settled
    \/ backoff_elapsed
    \/ \E p \in Procs : IGetSearched(p)
    \/ \E p \in Procs : IGetFetched(p)
    \/ \E p \in Procs : SubiUploaded(p)
    \/ \E p \in Procs : BuySavedListings(p)
    \/ \E p \in Procs : BuySavedOrders(p)

SpecClient == InitMarket /\ [][NextClient]_vars

(* --------------------------- the wallet hook ---------------------------- *)
AccountLists == {<<>>} \cup {<<a>> : a \in Accounts}

NextWallet ==
    \/ \E storage \in BOOLEAN, manual \in BOOLEAN, stored \in {None, "0xA"} :
            useWallet_mounted(storage, manual, stored)
    \/ \E i \in DOMAIN pending, accounts \in AccountLists, ok \in BOOLEAN :
            initializeWallet_settled(i, accounts, ok)
    \/ \E lock \in BOOLEAN : connect(lock)
    \/ \E i \in DOMAIN pending, accounts \in AccountLists, ok \in BOOLEAN :
            connect_settled(i, accounts, ok)
    \/ retryConnection
    \/ \E i \in DOMAIN pending : timer_fired(i)
    \/ disconnect
    \/ \E accounts \in AccountLists : handleAccountsChanged(accounts)
    \/ \E chainId \in ChainIds : handleChainChanged(chainId)
    \/ handleConnect
    \/ handleDisconnect

SpecWallet == InitDesk /\ [][NextWallet]_vars

(* a wallet that refuses every connection: eth_requestAccounts is rejected
   or returns no account, and eth_accounts finds none.  Requests to the
   provider settle and timers fire, hence the fairness. *)
ConnectFails ==
    \E i \in DOMAIN pending, ok \in BOOLEAN : connect_settled(i, <<>>, ok)

TimerFires == \E i \in DOMAIN pending : timer_fired(i)

NextReconnect ==
    \/ \E storage \in BOOLEAN, manual \in BOOLEAN, stored \in {None, "0xA"} :
            useWallet_mounted(storage, manual, stored)
    \/ \E i \in DOMAIN pending, ok \in BOOLEAN :
            initializeWallet_settled(i, <<>>, ok)
    \/ retryConnection
    \/ ConnectFails
    \/ TimerFires
    \/ \E accounts \in AccountLists : handleAccountsChanged(accounts)
    \/ \E chainId \in ChainIds : handleChainChanged(chainId)

SpecReconnect ==
    /\ InitDesk
    /\ [][NextReconnect]_vars
    /\ WF_vars(ConnectFails)
    /\ WF_vars(TimerFires)

(* ============================== claims ================================== *)
Quiescent == \A p \in Procs : ~Active(p)

\* the number of requests answered so far
Answered == started - Cardinality({p \in Procs : Active(p)})

GetOps == {"iget", "hget", "eget"}

\* the pin of the earlier process is there
Seeded == pinned # <<>> /\ pinned[1].content = SeedBalance

Balances(s) == <<s.totalBalance, s.rupeesBalance>>

\* C1: while no network call has failed, of the buys of one listing at most
\* one answers 200, and the listing's buyers are credited at most once and its
\* seller debited at most once.
C1_NoDoubleSpend ==
    faults = 0 =>
        \A id \in 1..Len(tally) :
            tally[id].ok <= 1 /\ tally[id].credits <= 1 /\ tally[id].debits <= 1

\* C2: when the applyDelta calls on an account have all returned (none failed,
\* the ledger started empty), the addressable balances of the account are the
\* initial balances plus the deltas of the calls.
C2_NoDeltaLost ==
    (Quiescent /\ faults = 0 /\ ~Seeded) =>
        \A k \in Keys :
            expected[k].n > 0 =>
                Balances(Addressable(k)) = <<expected[k].tokens, expected[k].rupees>>

\* C3: when a buy of a 20-token listing for 20 rupees that no other request
\* overlapped answers 200, and the buyer had (0, 100) and the seller (50, 100)
\* when it began, the stored balances are buyer (20, 80) and seller (30, 120).
C3_ExampleBuy ==
    (/\ response.op = "buy" /\ response.status = 200 /\ response.alone
     /\ Balances(response.before.buyer) = <<0, DefaultRupees>>
     /\ Balances(response.before.seller) = <<50, DefaultRupees>>)
    => /\ Balances(Addressable(Lower(response.email))) = <<20, 80>>
       /\ Balances(Addressable(response.body.listing.sellerEmail)) = <<30, 120>>

C5_BalanceIsSumOfAmounts ==
    \A k \in Keys :
        Addressable(k).totalBalance = SumAmounts(Addressable(k).transactions)

\* C5 witness: an account holds an admin approval and a marketplace delta
C5_Witness ==
    \E k \in Keys :
        LET txs == Addressable(k).transactions
        IN  /\ \E i \in 1..Len(txs) : txs[i].adminSignature = <<"admin">>
            /\ \E i \in 1..Len(txs) : txs[i].adminSignature # <<"admin">>
            /\ Addressable(k).totalBalance # 0

\* C6: when an applyDelta call returns and the addressable snapshot of its
\* account changes, the new transactions are the old ones and one more.
C6_AppendOnly ==
    [][\A k \in Keys :
          (expected'[k].n = expected[k].n + 1 /\ Addressable(k)' # Addressable(k))
          => /\ Len(Addressable(k)'.transactions)
                    = Len(Addressable(k).transactions) + 1
             /\ SubSeq(Addressable(k)'.transactions, 1,
                       Len(Addressable(k).transactions))
                    = Addressable(k).transactions]_vars

\* C7: the addressable snapshot of an account has the balances and the
\* transactions of the snapshot the latest applyDelta on the account returned.
C7_ReadYourWrite ==
    \A k \in Keys :
        lastRet[k] # Null =>
            /\ Balances(Addressable(k)) = Balances(lastRet[k])
            /\ Addressable(k).transactions = lastRet[k].transactions

IsDefaultSnapshot(body) ==
    /\ body # Null
    /\ "rupeesBalance" \in DOMAIN body
    /\ body.totalBalance = 0
    /\ body.rupeesBalance = DefaultRupees
    /\ body.transactions = <<>>

\* C8: getSnapshot of an account never written answers 0 tokens, 100 rupees
\* and no transactions.
C8_DefaultForNewKey ==
    (response.op \in GetOps /\ NeverWritten(Lower(response.email)))
        => IsDefaultSnapshot(response.body)

\* C9: getSnapshot answers a snapshot, and the default snapshot when one of its
\* network calls failed.
C9_NeverAbsent ==
    response.op \in GetOps =>
        /\ response.status = 200
        /\ response.body # Null
        /\ response.fault => IsDefaultSnapshot(response.body)

\* C10: a getSnapshot call that follows another on the same account, with no
\* applyDelta on the account in between, answers what the first answered.
C10_Idempotent ==
    (/\ response.op \in GetOps
     /\ response.seen # Null
     /\ response.seen.ver = response.ver)
        => response.body = response.seen.res

OrdersOf(id) == {i \in 1..Len(orders) : orders[i].listingId = id}

\* C12: when no handler is in flight, a sold listing has exactly one order and
\* any other listing has none.
C12_OneOrderPerSoldListing ==
    Quiescent =>
        \A id \in 1..Len(listings) :
            Cardinality(OrdersOf(id))
                = IF Listing(listings, id).status = SoldStatus THEN 1 ELSE 0

\* C13: a createListing that no other request overlapped and whose network
\* calls all succeeded answers 400 'Insufficient token balance' when it asks
\* for more tokens than the seller's balance less the seller's active listings.
C13_ListedTokensAreReserved ==
    (/\ response.op = "create" /\ response.alone /\ ~response.fault
     /\ response.amount > 0 /\ response.price > 0
     /\ response.amount > response.before.tokens - response.before.listed)
    => /\ response.status = 400
       /\ response.error = "Insufficient token balance"

\* C14: with balances seeded by positive admin deltas only, the token balance
\* of every account is at least 0 after any createListing and buyListing calls.
C14_TokensNeverNegative ==
    \A k \in Keys : Addressable(k).totalBalance >= 0

\* C15: createListing answers 400 to every request whose amountTokens or
\* priceRupees is 0 or less, and no listing has such a number.
C15_PositiveNumbersOnly ==
    /\ \A i \in 1..Len(listings) :
           listings[i].amountTokens > 0 /\ listings[i].priceRupees > 0
    /\ (response.op = "create" /\ (response.amount <= 0 \/ response.price <= 0))
       => response.status = 400

\* C16: a buy that no other request overlapped and that is answered with
\* another status than 200 leaves the buyer's and the seller's snapshot, the
\* status of the listing and the orders as they were when it began.
C16_FailedBuyChangesNothing ==
    (/\ response.op = "buy" /\ response.alone /\ response.status # 200
     /\ response.before # Null)
    => /\ Addressable(Lower(response.email)) = response.before.buyer
       /\ Addressable(Listing(listings, response.lid).sellerEmail)
              = response.before.seller
       /\ Listing(listings, response.lid).status = response.before.status
       /\ orders = response.before.orders

\* C17: a direct call of storeUserBalanceInternal (applyDelta) always returns
\* the new snapshot to its caller, it never throws; when the upload failed the
\* snapshot returned is the one in the in-memory cache.
C17_ApplyDeltaNeverFails ==
    response.op = "apply" =>
        /\ response.error # "thrown"
        /\ response.body # Null
        /\ response.fault => inMemoryBalances[Lower(response.email)] = response.body

\* C18: the router gives GET /balance/email/<email> to getUserBalanceByEmail
\* with params.userEmail = <email>, and GET /balance/<userId> to
\* getUserBalance with params.userId = <userId>.
C18_BalanceRoutes ==
    (route.method = "GET" /\ StartsWith(route.path, "balance")) =>
        IF Len(route.path) = 3 /\ route.path[2] = "email"
        THEN /\ route.handler = "getUserBalanceByEmail"
             /\ route.params = [userEmail |-> route.path[3]]
        ELSE Len(route.path) = 2 =>
                /\ route.handler = "getUserBalance"
                /\ route.params = [userId |-> route.path[2]]

C20_AdminOnly ==
    [][\A token \in TokenInputs, id \in TicketIds, action \in TicketActions,
          txHash \in TxHashes :
            (/\ started' = started + 1
             /\ updateTicketStatus(token, id, action, txHash)
             /\ \/ token = 0
                \/ adminSessions[token] = 0
                \/ now > adminSessions[token])
            => /\ verdict'.status = 401
               /\ tickets' = tickets]_vars

\* C20 witness: a request with an expired token of a session was answered 401
\* while there is a ticket
C20_Witness ==
    /\ verdict.op = "update" /\ verdict.status = 401
    /\ verdict.exp # 0 /\ now > verdict.exp
    /\ tickets # <<>>

\* the snapshot has a transaction with this note
Recorded(snapshot, note) ==
    \E i \in 1..Len(snapshot.transactions) :
        snapshot.transactions[i].adminSignature = note

\* C23: a listing is sold only if the latest addressable snapshot of a buyer
\* has the market_buy transaction of the listing and the latest addressable
\* snapshot of the seller has the matching market_sell transaction.
C23_SoldMeansBothRecorded ==
    \A id \in 1..Len(listings) :
        LET listing == Listing(listings, id)
        IN  listing.status = SoldStatus =>
                \E e \in Buyers :
                    /\ Recorded(Addressable(Lower(e)),
                                NoteOf("market_buy", id, listing.sellerEmail))
                    /\ Recorded(Addressable(listing.sellerEmail),
                                NoteOf("market_sell", id, e))

\* C24: once the addressable snapshot of an account has a userId or a
\* walletAddress, no step in which a direct storeUserBalanceInternal call
\* (applyDelta) returns or throws changes that field.
C24_FirstWriteWins ==
    [][\A k \in Keys :
          (/\ response'.op = "apply"
           /\ Lower(response'.email) = k)
          => /\ Addressable(k).userId # Undef
                    => Addressable(k)'.userId = Addressable(k).userId
             /\ Addressable(k).walletAddress # Undef
                    => Addressable(k)'.walletAddress = Addressable(k).walletAddress
      ]_vars

\* C25: validateAdmin accepts a token exactly when createAdminSession issued
\* it and the clock is not past its expiresAt; a session found expired is
\* removed from the map; and the map changes in no other way than by such a
\* removal or by a new session with a token never seen before.
C25_SessionLifetime ==
    [][/\ \A token \in TokenInputs, id \in TicketIds,
             action \in TicketActions, txHash \in TxHashes :
            (/\ started' = started + 1
             /\ updateTicketStatus(token, id, action, txHash))
            => /\ (verdict'.status # 401) <=>
                      (/\ token # 0
                       /\ adminSessions[token] # 0
                       /\ now <= adminSessions[token])
               /\ (token # 0 /\ adminSessions[token] # 0
                            /\ now > adminSessions[token])
                      => adminSessions'[token] = 0
       /\ \A t \in Tokens :
            adminSessions'[t] # adminSessions[t] =>
                \/ adminSessions'[t] = 0 /\ now > adminSessions[t]
                \/ /\ adminSessions[t] = 0
                   /\ t = started + 1
                   /\ adminSessions'[t] = now + SessionHours * MsPerHour
      ]_vars

\* C25 witness: a token was accepted at the very time of its expiresAt
C25_Witness ==
    /\ verdict.op = "update" /\ verdict.status # 401
    /\ verdict.exp # 0 /\ now = verdict.exp

\* C26: after any interleaving of createListing and buyListing calls the
\* rupeesBalance of every account is at least 0.
C26_RupeesNeverNegative ==
    \A k \in Keys : Addressable(k).rupeesBalance >= 0

\* C30: checkRateLimit allows at most 30 calls of an endpoint in the window of
\* 60 s that the endpoint's first allowed call opens and refuses every other
\* call in that window; it allows calls again once the window has passed; and
\* a call of one endpoint changes nothing for another.
C30_ThirtyPerWindow ==
    /\ [](\A e \in Endpoints :
             windows[e] # Null => windows[e].granted <= MAX_REQUESTS_PER_WINDOW)
    /\ [][\A e \in Endpoints :
             checkRateLimit(e) =>
                /\ (windows'[e] # windows[e] /\ windows'[e].refused) <=>
                      (/\ windows[e] # Null
                       /\ now <= windows[e].start + RATE_LIMIT_WINDOW
                       /\ windows[e].granted = MAX_REQUESTS_PER_WINDOW)
                /\ \A f \in Endpoints \ {e} :
                      /\ rateLimitMap'[f] = rateLimitMap[f]
                      /\ windows'[f] = windows[f]]_vars

\* C30 witness: in a window that a call of an endpoint opened after the
\* clock had advanced, 30 calls were allowed and one was refused
C30_Witness ==
    \E e \in Endpoints :
        /\ windows[e] # Null /\ windows[e].start > 0
        /\ windows[e].granted = MAX_REQUESTS_PER_WINDOW /\ windows[e].refused


\* the step is one accountsChanged event
AccountsChangedEvent == \E accounts \in AccountLists : handleAccountsChanged(accounts)

C29_ConnectedIffAccount == hook.isConnected <=> hook.account # None

\* after a connect() the hook is disconnected again and nothing is pending
C29_Witness ==
    /\ hook.requests > 0 /\ hook.storedAccount = None /\ hook.storage
    /\ ~hook.noConnect /\ ~hook.isConnected /\ hook.chainId # None
    /\ hook.error = None /\ ~hook.isConnecting /\ pending = <<>>

\* the step schedules a retry timer
TimerScheduled ==
    /\ Len(pending') > 0
    /\ pending'[Len(pending')].kind = "timer"
    /\ \E i \in DOMAIN pending, ok \in BOOLEAN : connect_settled(i, <<>>, ok)

C28_QuietAfterDisconnect ==
    [][hook.storage /\ hook'.quiet =>
          /\ hook'.requests = hook.requests
          /\ hook'.manualFlag]_vars

\* C27: one call of Api.buyListing, with all the retries of withRetry,
\* credits the buyer (tokens in, rupees out, one update) at most once and
\* creates at most one order
C27_OneBuyPerCall ==
    retry.request # Null /\ retry.request.listingId \in DOMAIN tally =>
        /\ tally[retry.request.listingId].credits - retry.before.credits <= 1
        /\ Len(orders) - retry.before.orders <= 1
====
